---- MODULE Spec2Model ----
(***************************************************************************)
(* DistanceFieldGenerator (src/src/gpu-distance-field.ts): the pipeline    *)
(* orchestrator and resource manager of the jump-flood distance field      *)
(* generator, over an abstract graphics backend.                           *)
(*                                                                         *)
(* The generator object and the backend objects it owns are one record,    *)
(* g, so that every method of the class is an operator from g to g.  The   *)
(* contents of textures and of the drawing buffer are symbolic terms that  *)
(* say which pass produced them from which inputs.                         *)
(***************************************************************************)
EXTENDS Integers, Sequences, FiniteSets, TLC

\* ------------------------------------------------------------------------
\* Bounds of the model
\* ------------------------------------------------------------------------
\* Input and output canvases are w x h with w, h in 1..MaxDim.
MaxDim == 3
\* Largest max(width, height) explored by the step-schedule specification.
MaxN == 40
\* Largest width and height of the images of one spot on white that the
\* pixel-level specification runs through the shaders.
MaxGrid == 3

\* ------------------------------------------------------------------------
\* Types of the program
\* ------------------------------------------------------------------------
\* A null reference; texture and render-target ids start at 1.
NULL == 0

JumpFloodQuality == {"JFA", "JFA+1", "JFA+2"}

FOR_ANOTHER_STEP ==
  [format |-> "seed-position", antialiasedDistance |-> FALSE, renderTarget |-> "texture"]

FOR_SCREEN_NON_ANTIALIASED ==
  [format |-> "distance", antialiasedDistance |-> FALSE, renderTarget |-> "screen"]

FOR_SCREEN_ANTIALIASED ==
  [format |-> "distance", antialiasedDistance |-> TRUE, renderTarget |-> "screen"]

\* new Float32Array([1, 1, 1, 1])
WHITE == "white"

\* Background colours a caller of generateRawDistanceField passes.
Colors == {"grey"}

Dims == 1..MaxDim

\* The pictures a caller draws on an input canvas.
Images == {"A", "B"}

\* An input canvas: its size and which picture is drawn on it.
InputCanvases == [width : Dims, height : Dims, img : Images]

Max(a, b) == IF a >= b THEN a ELSE b

\* ------------------------------------------------------------------------
\* Contents of a texture or of the drawing buffer, as a term
\* ------------------------------------------------------------------------
Content(kind, step, img, w, h, inputs) ==
  [kind |-> kind, step |-> step, img |-> img, w |-> w, h |-> h, inputs |-> inputs]

\* Storage that was allocated or resized without pixels, or written by a
\* draw whose result the backend does not define.
UNDEFINED == Content("undefined", <<0, 1>>, "", 0, 0, <<>>)

\* The drawing buffer of a canvas whose size was just set.
BLANK == Content("blank", <<0, 1>>, "", 0, 0, <<>>)

\* What a draw or an upload of an earlier generate call left.
OLD == Content("old", <<0, 1>>, "", 0, 0, <<>>)

\* The pixels of an input canvas.
ImagePixels(canvas) ==
  Content("image", <<0, 1>>, canvas.img, canvas.width, canvas.height, <<>>)

\* ------------------------------------------------------------------------
\* Numbers: JavaScript doubles that are dyadic rationals, <<num, den>>
\* ------------------------------------------------------------------------
Num(k) == <<k, 1>>

\* x / 2
HalfOf(x) == IF x[1] % 2 = 0 THEN <<x[1] \div 2, x[2]>> ELSE <<x[1], 2 * x[2]>>

\* x >= 1
AtLeastOne(x) == x[1] >= x[2]

\* x < 1
BelowOne(x) == x[1] < x[2]

\* ------------------------------------------------------------------------
\* 32-bit integer operators of JavaScript, on operands in 0 .. 2^31 - 1
\* (where ToInt32 is the identity and >> is a division)
\* ------------------------------------------------------------------------
RECURSIVE BitOr(_, _)
\* a | b
BitOr(a, b) ==
  IF a = 0 THEN b
  ELSE IF b = 0 THEN a
  ELSE (IF a % 2 = 1 \/ b % 2 = 1 THEN 1 ELSE 0) + 2 * BitOr(a \div 2, b \div 2)

\* a >> k
ShiftRight(a, k) == a \div (2^k)

\* A dropped line: the propagation of the highest bit by two places.
nextPowerOfTwo_NoShift2(n) ==
  LET n0 == n - 1
      n1 == BitOr(n0, ShiftRight(n0, 1))
      n3 == BitOr(n1, ShiftRight(n1, 4))
      n4 == BitOr(n3, ShiftRight(n3, 8))
      n5 == BitOr(n4, ShiftRight(n4, 16))
  IN  n5 + 1

nextPowerOfTwo(n) ==
  LET n0 == n - 1
      n1 == BitOr(n0, ShiftRight(n0, 1))
      n2 == BitOr(n1, ShiftRight(n1, 2))
      n3 == BitOr(n2, ShiftRight(n2, 4))
      n4 == BitOr(n3, ShiftRight(n3, 8))
      n5 == BitOr(n4, ShiftRight(n4, 16))
  IN  n5 + 1

\* ------------------------------------------------------------------------
\* The graphics backend (./graphics: Graphics.Texture, Graphics.RenderTarget,
\* Graphics.Material, WebGL.Context), by its capability interface
\* ------------------------------------------------------------------------
_prepJumpFloodData == "_prepJumpFloodData"
_jumpFloodOutputSeedPosition == "_jumpFloodOutputSeedPosition"
_jumpFloodOutputDistance == "_jumpFloodOutputDistance"

Materials == {_prepJumpFloodData, _jumpFloodOutputSeedPosition, _jumpFloodOutputDistance}

\* A program as created: no uniform set yet.
NewMaterial ==
  [uSeedInputTexture |-> NULL, uInputTexture |-> NULL, uStepSize |-> Num(0),
   uResolution |-> <<0, 0>>, uBackgroundColor |-> "", uAntialiasedDistance |-> FALSE,
   frees |-> 0]

Log(g, call) == [g EXCEPT !.calls = Append(@, call)]

\* gl.createTexture(format, width, height): the new texture gets the next id.
createTexture(g, width, height) ==
  Log([g EXCEPT !.textures = Append(@, [width |-> width, height |-> height,
                                         content |-> UNDEFINED, frees |-> 0,
                                         writer |-> -1])],
      [op |-> "createTexture", id |-> Len(g.textures) + 1])

\* gl.createRenderTarget(texture): the new target gets the next id.
createRenderTarget(g, texture) ==
  Log([g EXCEPT !.renderTargets = Append(@, [texture |-> texture, frees |-> 0])],
      [op |-> "createRenderTarget", id |-> Len(g.renderTargets) + 1])

\* texture.resize(width, height, pixels): new storage, holding the pixels
\* given, or undefined without pixels.
Texture_resize(g, texture, width, height, pixels) ==
  Log([g EXCEPT !.textures[texture] =
         [@ EXCEPT !.width = width, !.height = height, !.content = pixels,
                   !.writer = -1]],
      [op |-> "texture.resize", id |-> texture, upload |-> pixels # UNDEFINED])

\* texture.free()
Texture_free(g, texture) ==
  Log([g EXCEPT !.textures[texture].frees = @ + 1],
      [op |-> "texture.free", id |-> texture])

\* buffer.free() of the quad vertex buffer
VertexBuffer_free(g) ==
  Log([g EXCEPT !.quadBufferFrees = @ + 1], [op |-> "buffer.free"])

\* material.free()
Material_free(g, material) ==
  Log([g EXCEPT !.materials[material].frees = @ + 1],
      [op |-> "material.free", material |-> material])

\* gl.resize(w, h, w, h): sets the size of the canvas, which clears its
\* drawing buffer.
gl_resize(g, width, height) ==
  Log([g EXCEPT !._outputCanvas = [width |-> width, height |-> height],
                !.drawingBuffer = BLANK],
      [op |-> "gl.resize"])

\* material.setUniformSampler / Int / Vec2 / Vec4 / Bool
setUniform(g, material, name, value) ==
  [g EXCEPT !.materials[material][name] = value]

\* gl.setRenderTarget(target); null is the drawing buffer of the canvas.
setRenderTarget(g, target) == [g EXCEPT !.renderTarget = target]

\* gl.setViewport(0, 0, width, height)
setViewport(g, width, height) == [g EXCEPT !.viewport = <<width, height>>]

\* What a sampler bound to `texture` reads.
Sampled(g, texture) ==
  IF texture = NULL THEN UNDEFINED
  ELSE IF g.textures[texture].frees > 0 THEN UNDEFINED
  ELSE g.textures[texture].content

\* The draws issued since the current call began.
Draws(g) == SelectSeq(g.calls, LAMBDA c : c.op = "draw")

\* What the fragment shader of a program writes, as a term of what it
\* reads: fPrepForJFA samples uSeedInputTexture, fJumpFloodOutputSeedPosition
\* samples uInputTexture at offsets of uStepSize, fJumpFloodOutputDistance
\* samples both; all three divide by uResolution.
FragmentShader(g, material) ==
  LET m == g.materials[material]
  IN  CASE material = _prepJumpFloodData ->
             Content("seeds", Num(0), "", m.uResolution[1], m.uResolution[2],
                     <<Sampled(g, m.uSeedInputTexture)>>)
        [] material = _jumpFloodOutputSeedPosition ->
             Content("seed-position", m.uStepSize, "", m.uResolution[1], m.uResolution[2],
                     <<Sampled(g, m.uInputTexture)>>)
        [] material = _jumpFloodOutputDistance ->
             Content("distance", m.uStepSize, "", m.uResolution[1], m.uResolution[2],
                     <<Sampled(g, m.uInputTexture), Sampled(g, m.uSeedInputTexture)>>)

\* The textures the fragment shader of a program samples.
Samplers(g, material) ==
  LET m == g.materials[material]
  IN  CASE material = _prepJumpFloodData -> {m.uSeedInputTexture}
        [] material = _jumpFloodOutputSeedPosition -> {m.uInputTexture}
        [] material = _jumpFloodOutputDistance -> {m.uInputTexture, m.uSeedInputTexture}

\* gl.draw(TRIANGLE_STRIP, material, quadBuffer): every pixel of the viewport
\* of the bound render target gets the output of the material's fragment
\* shader.  Sampling the texture being drawn to, or drawing with a freed
\* program or buffer, leaves the target undefined.  The call is recorded
\* with what it read: `inputWriter` is the number of the draw that last wrote
\* the texture bound as uInputTexture.
draw(g, material) ==
  LET m == g.materials[material]
      targetTexture ==
        IF g.renderTarget = NULL THEN NULL ELSE g.renderTargets[g.renderTarget].texture
      targetSize ==
        IF targetTexture = NULL
          THEN <<g._outputCanvas.width, g._outputCanvas.height>>
          ELSE <<g.textures[targetTexture].width, g.textures[targetTexture].height>>
      defined ==
        /\ targetTexture \notin Samplers(g, material) \/ targetTexture = NULL
        /\ m.frees = 0
        /\ g.quadBufferFrees = 0
        /\ g.viewport = targetSize
      written == IF defined THEN FragmentShader(g, material) ELSE UNDEFINED
      pass == Len(Draws(g))
      g1 ==
        IF targetTexture = NULL
          THEN [g EXCEPT !.drawingBuffer = written]
          ELSE [g EXCEPT !.textures[targetTexture] =
                  [@ EXCEPT !.content = written, !.writer = pass]]
  IN  Log(g1, [op |-> "draw", material |-> material,
               samplers |-> Samplers(g, material),
               target |-> g.renderTarget, targetTexture |-> targetTexture,
               stepSize |-> m.uStepSize,
               inputWriter |->
                 IF material = _prepJumpFloodData \/ m.uInputTexture = NULL THEN -1
                 ELSE g.textures[m.uInputTexture].writer,
               inputKind |->
                 IF material = _prepJumpFloodData THEN Sampled(g, m.uSeedInputTexture).kind
                 ELSE Sampled(g, m.uInputTexture).kind])

\* ------------------------------------------------------------------------
\* class DistanceFieldGenerator
\* ------------------------------------------------------------------------
\* The object before its constructor runs: every field unset, nothing
\* created.  `calls` is the record of the backend calls of the current public
\* call and `threw` says that the call was left by an exception; the
\* `writer` of a texture is the number, in the current call, of the draw that
\* last wrote it (-1: none did).
Unconstructed(width, height) ==
  [_outputCanvas |-> [width |-> width, height |-> height],
   drawingBuffer |-> BLANK,
   _sourceTexture |-> NULL, _destTexture |-> NULL,
   _sourceTextureTarget |-> NULL, _destTextureTarget |-> NULL,
   _seedInputTexture |-> NULL,
   textures |-> <<>>, renderTargets |-> <<>>,
   materials |-> [m \in {} |-> NewMaterial], quadBufferFrees |-> 0,
   renderTarget |-> NULL, viewport |-> <<0, 0>>,
   calls |-> <<>>, threw |-> FALSE]

\* The mutation: the size test is lost and every call resizes.
_resizeTextureAlways(g, texture, newWidth, newHeight, forceUpdate) ==
  Texture_resize(g, texture, newWidth, newHeight, UNDEFINED)

_resizeTextureIfNecessary(g, texture, newWidth, newHeight, forceUpdate) ==
  IF /\ g.textures[texture].width = newWidth
     /\ g.textures[texture].height = newHeight
     /\ forceUpdate # "force-update"
    THEN g
    ELSE Texture_resize(g, texture, newWidth, newHeight, UNDEFINED)

\* The mutation: === where !== was meant.
outputCanvasSizeNeedsUpdate_Equal(g, newWidth, newHeight, forceUpdate) ==
  \/ g._outputCanvas.width = newWidth
  \/ g._outputCanvas.height = newHeight
  \/ forceUpdate = "force-update"

outputCanvasSizeNeedsUpdate(g, newWidth, newHeight, forceUpdate) ==
  \/ g._outputCanvas.width # newWidth
  \/ g._outputCanvas.height # newHeight
  \/ forceUpdate = "force-update"

_resizeOutputCanvasAndTextures(g, newWidth, newHeight, forceUpdate) ==
  LET g1 == IF outputCanvasSizeNeedsUpdate(g, newWidth, newHeight, forceUpdate)
              THEN gl_resize(g, newWidth, newHeight) ELSE g
      g2 == IF g1._sourceTexture = NULL
              THEN LET t == Len(g1.textures) + 1
                       c == createTexture(g1, newWidth, newHeight)
                   IN  [createRenderTarget([c EXCEPT !._sourceTexture = t], t)
                          EXCEPT !._sourceTextureTarget = Len(c.renderTargets) + 1]
              ELSE _resizeTextureIfNecessary(g1, g1._sourceTexture, newWidth, newHeight,
                                             "dont-force")
      g3 == IF g2._destTexture = NULL
              THEN LET t == Len(g2.textures) + 1
                       c == createTexture(g2, newWidth, newHeight)
                   IN  [createRenderTarget([c EXCEPT !._destTexture = t], t)
                          EXCEPT !._destTextureTarget = Len(c.renderTargets) + 1]
              ELSE _resizeTextureIfNecessary(g2, g2._destTexture, newWidth, newHeight,
                                             "dont-force")
      g4 == IF g3._seedInputTexture = NULL
              THEN [createTexture(g3, newWidth, newHeight)
                      EXCEPT !._seedInputTexture = Len(g3.textures) + 1]
              ELSE _resizeTextureIfNecessary(g3, g3._seedInputTexture, newWidth, newHeight,
                                             "dont-force")
  IN  g4

\* new DistanceFieldGenerator(outputCanvas), for a canvas of the given size.
constructor(width, height) ==
  LET g1 == _resizeOutputCanvasAndTextures(Unconstructed(width, height), width, height,
                                           "force-update")
  IN  [g1 EXCEPT !.materials = [m \in Materials |-> NewMaterial]]

destroy(g) ==
  LET g1 == IF g._sourceTexture # NULL THEN Texture_free(g, g._sourceTexture) ELSE g
      g2 == IF g1._destTexture # NULL THEN Texture_free(g1, g1._destTexture) ELSE g1
      g3 == IF g2._seedInputTexture # NULL THEN Texture_free(g2, g2._seedInputTexture) ELSE g2
      g4 == VertexBuffer_free(g3)
      g5 == Material_free(g4, _prepJumpFloodData)
      g6 == Material_free(g5, _jumpFloodOutputDistance)
  IN  Material_free(g6, _jumpFloodOutputSeedPosition)

\* The mutation: the textures change places, their render targets do not.
_swapTexturesOnly(g) ==
  [g EXCEPT !._sourceTexture = g._destTexture, !._destTexture = g._sourceTexture]

_swapBuffers(g) ==
  [g EXCEPT !._sourceTexture = g._destTexture,
            !._sourceTextureTarget = g._destTextureTarget,
            !._destTexture = g._sourceTexture,
            !._destTextureTarget = g._sourceTextureTarget]

\* A call already left by an exception runs no further statement.
_setSeedsFromCanvas(g, inputCanvas, backgroundColor) ==
  IF g.threw THEN g
  ELSE IF g._seedInputTexture = NULL THEN [g EXCEPT !.threw = TRUE]
  ELSE
    LET width == inputCanvas.width
        height == inputCanvas.height
        g1 == Texture_resize(g, g._seedInputTexture, width, height, ImagePixels(inputCanvas))
        g2 == setUniform(g1, _prepJumpFloodData, "uSeedInputTexture", g1._seedInputTexture)
        g3 == setUniform(g2, _prepJumpFloodData, "uResolution", <<width, height>>)
        g4 == setUniform(g3, _prepJumpFloodData, "uBackgroundColor", backgroundColor)
        g5 == setRenderTarget(g4, g4._sourceTextureTarget)
        g6 == setViewport(g5, width, height)
    IN  draw(g6, _prepJumpFloodData)

\* The body of _runJumpFloodStep up to its draw call.
JumpFloodDraw(g, stepSize, output) ==
  LET width == g._outputCanvas.width
      height == g._outputCanvas.height
      material == IF output.format = "seed-position" THEN _jumpFloodOutputSeedPosition ELSE _jumpFloodOutputDistance
      g1 == setUniform(g, material, "uInputTexture", g._sourceTexture)
      g2 == setUniform(g1, material, "uStepSize", stepSize)
      g3 == setUniform(g2, material, "uResolution", <<width, height>>)
      g4 == IF output.format = "distance"
              THEN setUniform(setUniform(g3, material, "uSeedInputTexture",
                                         g3._seedInputTexture),
                              material, "uAntialiasedDistance", output.antialiasedDistance)
              ELSE g3
      g5 == setRenderTarget(g4, IF output.renderTarget = "texture"
                                  THEN g4._destTextureTarget ELSE NULL)
      g6 == setViewport(g5, width, height)
  IN  draw(g6, material)

\* The mutation: the step forgets to swap the buffers.
_runJumpFloodStep_NoSwap(g, stepSize, output) ==
  IF g.threw THEN g
  ELSE IF g._sourceTexture = NULL \/ g._seedInputTexture = NULL
    THEN [g EXCEPT !.threw = TRUE]
  ELSE JumpFloodDraw(g, stepSize, output)

_runJumpFloodStep(g, stepSize, output) ==
  IF g.threw THEN g
  ELSE IF g._sourceTexture = NULL \/ g._seedInputTexture = NULL
    THEN [g EXCEPT !.threw = TRUE]
  ELSE _swapBuffers(JumpFloodDraw(g, stepSize, output))

\* let stepSize = nextPowerOfTwo(Math.max(width, height)) / 2
InitialStepSize(width, height) == HalfOf(Num(nextPowerOfTwo(Max(width, height))))

\* The condition of the while loop.
LoopContinues(stepSize) == AtLeastOne(stepSize)

isLastStep(stepSize, quality) == BelowOne(HalfOf(stepSize)) /\ quality = "JFA"

\* The while loop of generateDistanceField and of generateRawDistanceField,
\* which differ in the output they ask of the last step.
LoopOutput(stepSize, quality, forScreen) ==
  IF isLastStep(stepSize, quality) THEN forScreen ELSE FOR_ANOTHER_STEP

RECURSIVE BaseLoop(_, _, _, _)
BaseLoop(g, stepSize, quality, forScreen) ==
  IF LoopContinues(stepSize)
    THEN BaseLoop(_runJumpFloodStep(g, stepSize, LoopOutput(stepSize, quality, forScreen)),
                  HalfOf(stepSize), quality, forScreen)
    ELSE g

\* The mutation: JFA+2 runs its two extra steps in the order 1, 2.
QualitySwitch_Reversed(g, quality, forScreen) ==
  CASE quality = "JFA" -> g
    [] quality = "JFA+1" -> _runJumpFloodStep(g, Num(1), forScreen)
    [] quality = "JFA+2" ->
         _runJumpFloodStep(_runJumpFloodStep(g, Num(1), FOR_ANOTHER_STEP), Num(2), forScreen)

\* switch (quality) { ... }
QualitySwitch(g, quality, forScreen) ==
  CASE quality = "JFA" -> g
    [] quality = "JFA+1" -> _runJumpFloodStep(g, Num(1), forScreen)
    [] quality = "JFA+2" ->
         _runJumpFloodStep(_runJumpFloodStep(g, Num(2), FOR_ANOTHER_STEP), Num(1), forScreen)

generateDistanceField(g, inputCanvas, quality) ==
  LET width == inputCanvas.width
      height == inputCanvas.height
      g1 == _resizeOutputCanvasAndTextures(g, width, height, "dont-force")
      g2 == _setSeedsFromCanvas(g1, inputCanvas, WHITE)
      g3 == BaseLoop(g2, InitialStepSize(width, height), quality, FOR_SCREEN_ANTIALIASED)
  IN  QualitySwitch(g3, quality, FOR_SCREEN_ANTIALIASED)

generateRawDistanceField(g, inputCanvas, backgroundColor, quality) ==
  LET width == inputCanvas.width
      height == inputCanvas.height
      g1 == _resizeOutputCanvasAndTextures(g, width, height, "dont-force")
      g2 == _setSeedsFromCanvas(g1, inputCanvas, backgroundColor)
      g3 == BaseLoop(g2, InitialStepSize(width, height), quality, FOR_SCREEN_NON_ANTIALIASED)
  IN  QualitySwitch(g3, quality, FOR_SCREEN_NON_ANTIALIASED)

\* The array getPixels returns: its length and what readPixels put in it.
getPixels(g) ==
  [length |-> g._outputCanvas.width * g._outputCanvas.height * 4,
   content |-> g.drawingBuffer]

\* The index of the red byte that the sampling helper getDistanceFromPixels
\* reads for the top-left-origin pixel (x, y).
redPixelIndex(canvasWidth, canvasHeight, x, y) ==
  LET flippedY == canvasHeight - y
      BYTES_PER_PIXEL == 4
      pixelsPerRow == canvasWidth * BYTES_PER_PIXEL
  IN  flippedY * pixelsPerRow + x * BYTES_PER_PIXEL

\* ------------------------------------------------------------------------
\* The state machine: one generator and the public calls made on it
\* ------------------------------------------------------------------------
VARIABLES
  g,         \* the generator and the backend objects it owns
  lastCall,  \* the public call that ran last, with its arguments
  returned,  \* what that call returned
  sched,     \* the loop of the step-schedule specification (see SchedSpec)
  codec,     \* a value on its way through a codec (see CodecSpec)
  px,        \* the pixels of one generate call, pass by pass (see PixelSpec)
  rank       \* one comparison of getNewPositionValueIfCloser (see RankSpec)

vars == <<g, lastCall, returned, sched, codec, px, rank>>

NoCanvas == [width |-> 0, height |-> 0, img |-> ""]

GenerateCalls == {"generateDistanceField", "generateRawDistanceField"}

\* A call and the state it found: whether its input has the size the
\* buffers already had, whether destroy had run and whether a generate call
\* had.
Call(s, afterGenerate, fn, inputCanvas, backgroundColor, quality) ==
  [fn |-> fn, inputCanvas |-> inputCanvas, backgroundColor |-> backgroundColor,
   quality |-> quality,
   sameSize |-> /\ inputCanvas.width = s._outputCanvas.width
                /\ inputCanvas.height = s._outputCanvas.height,
   afterDestroy |-> s.quadBufferFrees > 0,
   afterGenerate |-> afterGenerate]

\* A generate call has run by now.
Generated == lastCall.fn \in GenerateCalls \/ lastCall.afterGenerate

VOID == [length |-> 0, content |-> UNDEFINED]

\* A public call starts with an empty record of backend calls.
BeginCall(s) == [s EXCEPT !.calls = <<>>, !.threw = FALSE]

Aged(content) == IF content.kind \in {"undefined", "blank"} THEN content ELSE OLD

\* When a generate call starts, what the textures and the drawing buffer
\* hold and what the uniforms are set to was put there by earlier calls: the
\* contents are OLD, whichever call it was, and the uniforms are as good as
\* unset.
BeginGenerate(s) ==
  [BeginCall(s) EXCEPT
     !.drawingBuffer = Aged(@),
     !.materials = [m \in DOMAIN s.materials |->
                      [NewMaterial EXCEPT !.frees = s.materials[m].frees]],
     !.textures = [t \in DOMAIN s.textures |->
                     [s.textures[t] EXCEPT !.content = Aged(@), !.writer = -1]]]

Destroyed(s) == s.quadBufferFrees > 0

SchedIdle ==
  [width |-> 0, height |-> 0, quality |-> "", stepSize |-> Num(0), steps |-> <<>>,
   pc |-> "idle"]

CodecIdle == [pc |-> "idle"]

PxIdle == [pc |-> "idle"]

RankIdle == [pc |-> "idle"]

Init ==
  /\ \E width \in Dims, height \in Dims : g = constructor(width, height)
  /\ lastCall = Call(Unconstructed(0, 0), FALSE, "constructor", NoCanvas, "", "")
  /\ returned = VOID
  /\ sched = SchedIdle
  /\ codec = CodecIdle
  /\ px = PxIdle
  /\ rank = RankIdle

GenerateDistanceField ==
  \E inputCanvas \in InputCanvases, quality \in JumpFloodQuality :
    /\ g' = generateDistanceField(BeginGenerate(g), inputCanvas, quality)
    /\ lastCall' = Call(g, Generated, "generateDistanceField", inputCanvas, WHITE, quality)
    /\ returned' = VOID
    /\ UNCHANGED <<sched, codec, px, rank>>

GenerateRawDistanceField ==
  \E inputCanvas \in InputCanvases, backgroundColor \in Colors, quality \in JumpFloodQuality :
    /\ g' = generateRawDistanceField(BeginGenerate(g), inputCanvas, backgroundColor, quality)
    /\ lastCall' = Call(g, Generated, "generateRawDistanceField", inputCanvas, backgroundColor, quality)
    /\ returned' = VOID
    /\ UNCHANGED <<sched, codec, px, rank>>

GetPixels ==
  /\ g' = BeginCall(g)
  /\ lastCall' = Call(g, Generated, "getPixels", NoCanvas, "", "")
  /\ returned' = getPixels(g)
  /\ UNCHANGED <<sched, codec, px, rank>>

\* Calling destroy twice is undefined; it is called at most once.
Destroy ==
  /\ ~Destroyed(g)
  /\ g' = destroy(BeginCall(g))
  /\ lastCall' = Call(g, Generated, "destroy", NoCanvas, "", "")
  /\ returned' = VOID
  /\ UNCHANGED <<sched, codec, px, rank>>

Next == GenerateDistanceField \/ GenerateRawDistanceField \/ GetPixels \/ Destroy

Spec == Init /\ [][Next]_vars

\* ------------------------------------------------------------------------
\* The step schedule alone: the while loop of generateDistanceField, one
\* iteration at a time, for canvases up to MaxN x MaxN.  `steps` records the
\* step size and the output each iteration hands to _runJumpFloodStep.
\* ------------------------------------------------------------------------
SchedInit ==
  /\ g = constructor(1, 1)
  /\ lastCall = Call(Unconstructed(0, 0), FALSE, "constructor", NoCanvas, "", "")
  /\ returned = VOID
  /\ codec = CodecIdle
  /\ px = PxIdle
  /\ rank = RankIdle
  /\ \E width \in 1..MaxN, height \in 1..MaxN, quality \in JumpFloodQuality :
       sched = [width |-> width, height |-> height, quality |-> quality,
                stepSize |-> InitialStepSize(width, height), steps |-> <<>>,
                pc |-> "loop"]

SchedIteration ==
  /\ sched.pc = "loop"
  /\ LoopContinues(sched.stepSize)
  /\ sched' = [sched EXCEPT
       !.steps = Append(@, [stepSize |-> sched.stepSize,
                            output |-> LoopOutput(sched.stepSize, sched.quality,
                                                  FOR_SCREEN_ANTIALIASED)]),
       !.stepSize = HalfOf(@)]
  /\ UNCHANGED <<g, lastCall, returned, codec, px, rank>>

SchedExit ==
  /\ sched.pc = "loop"
  /\ ~LoopContinues(sched.stepSize)
  /\ sched' = [sched EXCEPT !.pc = "done"]
  /\ UNCHANGED <<g, lastCall, returned, codec, px, rank>>

SchedNext == SchedIteration \/ SchedExit

SchedSpec == SchedInit /\ [][SchedNext]_vars

\* ------------------------------------------------------------------------
\* The codecs of the shaders.  A coordinate is a whole number of
\* sixteenths of a pixel (twice as fine as the position codec resolves), a
\* distance a whole number of 1/2000 pixel (twice as fine as the distance
\* codec resolves), and a colour channel holding d / BASE is the number d.
\* Arithmetic is exact: the rounding of 32-bit floats is not modelled.
\* ------------------------------------------------------------------------
BASE == 255

DECIMAL_DIVIDER == 8

\* Units per pixel of the coordinates of the model.
Sub == 2 * DECIMAL_DIVIDER

\* The mutation: the coordinate is encoded in tenths, as the comment above
\* the encoder says, and decoded in eighths.
encodePositionAsColor_Tenths(fragCoordXY) ==
  LET x == (fragCoordXY[1] * 10) \div Sub
      y == (fragCoordXY[2] * 10) \div Sub
  IN  <<x \div BASE, x % BASE, y \div BASE, y % BASE>>

encodePositionAsColor(fragCoordXY) ==
  LET x == (fragCoordXY[1] * DECIMAL_DIVIDER) \div Sub
      y == (fragCoordXY[2] * DECIMAL_DIVIDER) \div Sub
  IN  <<x \div BASE, x % BASE, y \div BASE, y % BASE>>

decodePositionFromColor(color) ==
  << ((color[1] * BASE + color[2]) * Sub) \div DECIMAL_DIVIDER,
     ((color[3] * BASE + color[4]) * Sub) \div DECIMAL_DIVIDER >>

MAX_POSITION == (BASE * BASE - 1) \div DECIMAL_DIVIDER

\* A channel written to an 8-bit texture or canvas and read back: the byte
\* nearest to 255 times the value, clamped.
Stored(color) ==
  [i \in DOMAIN color |->
     IF color[i] < 0 THEN 0 ELSE IF color[i] > 255 THEN 255 ELSE color[i]]

\* The multiplier of encodeDistanceFieldValue.
ENCODE_SCALE == 1000

\* Units per pixel of the distances of the model.
DistanceSub == 2 * ENCODE_SCALE

BASE_2 == BASE * BASE

BASE_3 == BASE * BASE_2

\* The mutation: the digits are not reduced modulo BASE.
encodeDistanceFieldValue_NoMod(value) ==
  LET v == value + BASE_3
  IN  << v \div (2 * BASE_2), v \div (2 * BASE), v \div 2, BASE >>

\* value * 1000 + BASE_3 / 2, kept doubled so that the half stays whole: a
\* distance in units of 1 / (2 * 1000) is its own product with 1000, doubled.
encodeDistanceFieldValue(value) ==
  LET v == value + BASE_3
  IN  << (v \div (2 * BASE_2)) % BASE, (v \div (2 * BASE)) % BASE, (v \div 2) % BASE,
         BASE >>

\* The documented ways to read a distance back: the number each subtracts
\* from r * BASE^2 + g * BASE + b, doubled, and the number it divides by.
README_GLSL == [path |-> "README getDistanceValue", bias2 |-> 0, scale |-> 1024]

README_JS == [path |-> "README getDistanceFromPixels", bias2 |-> 0, scale |-> 1024]

GL_API_DEMO == [path |-> "demos/gl-api getDistanceValue", bias2 |-> BASE_3, scale |-> 1024]

JS_API_DEMO == [path |-> "demos/js-api getDistanceFromPixels", bias2 |-> BASE_3, scale |-> 1000]

DecodePaths == {README_GLSL, README_JS, GL_API_DEMO, JS_API_DEMO}

\* What a decode path returns for a pixel, as the fraction num / den.
getDistanceValue(path, pixel) ==
  [num |-> 2 * (pixel[1] * BASE_2 + pixel[2] * BASE + pixel[3]) - path.bias2,
   den |-> 2 * path.scale]

\* a * m - b * n for a, b below 2^26 and m, n below 2^11, computed in two
\* limbs to stay inside 32 bits, and cut off beyond +-2^22.
LimbDifference(a, m, b, n) ==
  LET high == (a \div 1024) * m - (b \div 1024) * n
      low == (a % 1024) * m - (b % 1024) * n
  IN  IF high > 4096 THEN 4194304
      ELSE IF high < -4096 THEN -4194304
      ELSE 1024 * high + low

\* |num / den - value / DistanceSub| <= 1 / scale, where den = 2 * scale.
WithinOneStep(decoded, value, scale) ==
  LET d == LimbDifference(decoded.num, ENCODE_SCALE, value, scale)
  IN  -DistanceSub <= d /\ d <= DistanceSub

\* ------------------------------------------------------------------------
\* The fragment shaders, pixel by pixel.  A texture is its size and its
\* texels, texel (0, 0) first in memory; a seed input texel is the byte of
\* its red channel, a ping-pong texel the four bytes of an encoded position,
\* an output pixel the four bytes of an encoded distance.  gl_FragCoord and
\* every other coordinate is in eighths of a pixel, so that the centre of
\* pixel (x, y) is (8 x + 4, 8 y + 4).
\* ------------------------------------------------------------------------
Clamp(x, lower, higher) == IF x < lower THEN lower ELSE IF x > higher THEN higher ELSE x

Texels(w, h) == (0..(w - 1)) \X (0..(h - 1))

\* gl_FragCoord.xy of the fragment of pixel p.
FragCoord(p) == <<DECIMAL_DIVIDER * p[1] + DECIMAL_DIVIDER \div 2,
                  DECIMAL_DIVIDER * p[2] + DECIMAL_DIVIDER \div 2>>

\* gl_FragCoord.xy of the fragments of a w x h viewport.
FragCoords(w, h) == {FragCoord(p) : p \in Texels(w, h)}

\* texture2D(tex, coord / uResolution) of a NEAREST_CLAMP texture.
texture2D(tex, uResolution, coord) ==
  tex.at[<<Clamp((coord[1] * tex.w) \div (DECIMAL_DIVIDER * uResolution[1]), 0, tex.w - 1),
           Clamp((coord[2] * tex.h) \div (DECIMAL_DIVIDER * uResolution[2]), 0, tex.h - 1)>>]

\* gridUvFlippedY = vec2(gridUv.x, 1.0 - gridUv.y), times uResolution.
FlippedY(uResolution, coord) ==
  <<coord[1], DECIMAL_DIVIDER * uResolution[2] - coord[2]>>

sampleSeedTexture(uSeedInputTexture, uResolution, fragCoord) ==
  texture2D(uSeedInputTexture, uResolution, FlippedY(uResolution, fragCoord))

\* Tests on a red channel r = byte / 255.
AboveHalf(byte) == 2 * byte > 255

BelowHalf(byte) == 2 * byte < 255

\* The band of NearHalfGrey a quarter as wide: abs(r - .5) < .025
NearHalfGrey_Narrow(byte) == 40 * (2 * byte - 255) < 2 * 255 /\ 40 * (255 - 2 * byte) < 2 * 255

\* abs(r - .5) < .1
NearHalfGrey(byte) == 10 * (2 * byte - 255) < 2 * 255 /\ 10 * (255 - 2 * byte) < 2 * 255

\* inRange(r, desiredRange.x, desiredRange.y) for the range opposite selfColor.
OnOtherSide(selfColor, color) ==
  IF AboveHalf(selfColor) THEN 2 * color <= 255 ELSE 2 * color >= 255

NoNeighbor == [found |-> FALSE, coord |-> <<0, 0>>, color |-> 0]

xNeighborOnOtherSideOfHalfGrey(uSeedInputTexture, uResolution, fragCoord, selfColor) ==
  LET leftCoord == <<fragCoord[1] - DECIMAL_DIVIDER, fragCoord[2]>>
      rightCoord == <<fragCoord[1] + DECIMAL_DIVIDER, fragCoord[2]>>
      left == sampleSeedTexture(uSeedInputTexture, uResolution, leftCoord)
      right == sampleSeedTexture(uSeedInputTexture, uResolution, rightCoord)
  IN  IF OnOtherSide(selfColor, left)
        THEN [found |-> TRUE, coord |-> leftCoord, color |-> left]
      ELSE IF OnOtherSide(selfColor, right)
        THEN [found |-> TRUE, coord |-> rightCoord, color |-> right]
      ELSE NoNeighbor

yNeighborOnOtherSideOfHalfGrey(uSeedInputTexture, uResolution, fragCoord, selfColor) ==
  LET downCoord == <<fragCoord[1], fragCoord[2] - DECIMAL_DIVIDER>>
      upCoord == <<fragCoord[1], fragCoord[2] + DECIMAL_DIVIDER>>
      down == sampleSeedTexture(uSeedInputTexture, uResolution, downCoord)
      up == sampleSeedTexture(uSeedInputTexture, uResolution, upCoord)
  IN  IF OnOtherSide(selfColor, up)
        THEN [found |-> TRUE, coord |-> upCoord, color |-> up]
      ELSE IF OnOtherSide(selfColor, down)
        THEN [found |-> TRUE, coord |-> downCoord, color |-> down]
      ELSE NoNeighbor

Abs(x) == IF x < 0 THEN -x ELSE x

Min(a, b) == IF a < b THEN a ELSE b

\* mix with lerpFactor = .5 whatever the two colours: the seed half way to
\* the neighbour.
Mix_Midpoint(from, to, a, b) == (Sub * (from + to)) \div (DECIMAL_DIVIDER * 2)

\* mix(from, to, lerpFactor) with lerpFactor = abs(.5 - a) / abs(b - a), in
\* sixteenths of a pixel and rounded down, which is as much of it as
\* encodePositionAsColor keeps.
Mix(from, to, a, b) ==
  (Sub * (from * 2 * Abs(b - a) + (to - from) * Abs(255 - 2 * a)))
    \div (DECIMAL_DIVIDER * 2 * Abs(b - a))

\* vec2(MAX_POSITION + 1.), in sixteenths of a pixel.
NoSeed == <<(MAX_POSITION + 1) * Sub, (MAX_POSITION + 1) * Sub>>

\* The colour fPrepForJFA writes for the fragment at fragCoord.
fPrepForJFA(uSeedInputTexture, uResolution, fragCoord) ==
  LET selfColor == sampleSeedTexture(uSeedInputTexture, uResolution, fragCoord)
      self == <<(Sub * fragCoord[1]) \div DECIMAL_DIVIDER,
                (Sub * fragCoord[2]) \div DECIMAL_DIVIDER>>
      nx == xNeighborOnOtherSideOfHalfGrey(uSeedInputTexture, uResolution, fragCoord,
                                           selfColor)
      ny == yNeighborOnOtherSideOfHalfGrey(uSeedInputTexture, uResolution, fragCoord,
                                           selfColor)
      seedCoord1 ==
        IF nx.found
          THEN <<Mix(fragCoord[1], nx.coord[1], selfColor, nx.color), self[2]>>
          ELSE NoSeed
      seedCoord2 ==
        IF ny.found
          THEN <<Min(seedCoord1[1], self[1]),
                 Mix(fragCoord[2], ny.coord[2], selfColor, ny.color)>>
          ELSE seedCoord1
  IN  IF NearHalfGrey(selfColor)
        THEN encodePositionAsColor(self)
        ELSE encodePositionAsColor(seedCoord2)

\* Natural numbers beyond 32 bits, as four digits in base 10^4, the least
\* significant first.
Limb == 10000

BigNorm(c) ==
  LET c2 == c[2] + c[1] \div Limb
      c3 == c[3] + c2 \div Limb
      c4 == c[4] + c3 \div Limb
  IN  <<c[1] % Limb, c2 % Limb, c3 % Limb, c4>>

BigSquare(n) ==
  LET n0 == n % Limb
      n1 == n \div Limb
  IN  BigNorm(<<n0 * n0, 2 * n0 * n1, n1 * n1, 0>>)

BigTimes(a, k) == BigNorm(<<a[1] * k, a[2] * k, a[3] * k, a[4] * k>>)

BigLess(a, b) ==
  \/ a[4] < b[4]
  \/ a[4] = b[4] /\ a[3] < b[3]
  \/ a[4] = b[4] /\ a[3] = b[3] /\ a[2] < b[2]
  \/ a[4] = b[4] /\ a[3] = b[3] /\ a[2] = b[2] /\ a[1] < b[1]

\* The square of distance(seedLocation, fragCoord), in eighths of a pixel;
\* seedLocation is a decoded position, in sixteenths.
SquaredDistance(seedLocation, fragCoord) ==
  LET x == Abs((seedLocation[1] * DECIMAL_DIVIDER) \div Sub - fragCoord[1])
      y == Abs((seedLocation[2] * DECIMAL_DIVIDER) \div Sub - fragCoord[2])
      x0 == x % Limb
      x1 == x \div Limb
      y0 == y % Limb
      y1 == y \div Limb
  IN  BigNorm(<<x0 * x0 + y0 * y0, 2 * (x0 * x1 + y0 * y1), x1 * x1 + y1 * y1, 0>>)

\* getNewPositionValueIfCloser sampling transparent black, not the edge
\* cell, at an offset outside the grid.
getNewPositionValueIfCloser_Border(uInputTexture, uResolution, fragCoord, self, offset) ==
  LET x == fragCoord[1] + DECIMAL_DIVIDER * offset[1]
      y == fragCoord[2] + DECIMAL_DIVIDER * offset[2]
      inside == /\ 0 <= x /\ x < DECIMAL_DIVIDER * uResolution[1]
                /\ 0 <= y /\ y < DECIMAL_DIVIDER * uResolution[2]
      otherCell == IF inside THEN texture2D(uInputTexture, uResolution, <<x, y>>)
                   ELSE <<0, 0, 0, 0>>
      selfSeedDist == SquaredDistance(decodePositionFromColor(self), fragCoord)
      otherSeedDist == SquaredDistance(decodePositionFromColor(otherCell), fragCoord)
  IN  IF BigLess(otherSeedDist, selfSeedDist) THEN otherCell ELSE self

\* getNewPositionValueIfCloser taking the cell at the offset whatever the
\* two distances.
getNewPositionValueIfCloser_Always(uInputTexture, uResolution, fragCoord, self, offset) ==
  texture2D(uInputTexture, uResolution,
            <<fragCoord[1] + DECIMAL_DIVIDER * offset[1],
              fragCoord[2] + DECIMAL_DIVIDER * offset[2]>>)

\* getNewPositionValueIfCloser ranking the cell at the offset by the distance
\* to that cell, not to the seed it holds.
getNewPositionValueIfCloser_ToCell(uInputTexture, uResolution, fragCoord, self, offset) ==
  LET otherCell == texture2D(uInputTexture, uResolution,
                             <<fragCoord[1] + DECIMAL_DIVIDER * offset[1],
                               fragCoord[2] + DECIMAL_DIVIDER * offset[2]>>)
      selfSeedDist == SquaredDistance(decodePositionFromColor(self), fragCoord)
      otherSeedDist == SquaredDistance(<<0, 0>>, <<DECIMAL_DIVIDER * offset[1],
                                                   DECIMAL_DIVIDER * offset[2]>>)
  IN  IF BigLess(otherSeedDist, selfSeedDist) THEN otherCell ELSE self

\* getNewPositionValueIfCloser with the comparison turned round: the cell at
\* the offset when its seed is strictly farther.
getNewPositionValueIfCloser_Farther(uInputTexture, uResolution, fragCoord, self, offset) ==
  LET otherCell == texture2D(uInputTexture, uResolution,
                             <<fragCoord[1] + DECIMAL_DIVIDER * offset[1],
                               fragCoord[2] + DECIMAL_DIVIDER * offset[2]>>)
      selfSeedDist == SquaredDistance(decodePositionFromColor(self), fragCoord)
      otherSeedDist == SquaredDistance(decodePositionFromColor(otherCell), fragCoord)
  IN  IF BigLess(selfSeedDist, otherSeedDist) THEN otherCell ELSE self

\* The colour getNewPositionValueIfCloser returns: the cell at the offset
\* when its seed is strictly closer to the fragment, else self.
getNewPositionValueIfCloser(uInputTexture, uResolution, fragCoord, self, offset) ==
  LET otherCell == texture2D(uInputTexture, uResolution,
                             <<fragCoord[1] + DECIMAL_DIVIDER * offset[1],
                               fragCoord[2] + DECIMAL_DIVIDER * offset[2]>>)
      selfSeedDist == SquaredDistance(decodePositionFromColor(self), fragCoord)
      otherSeedDist == SquaredDistance(decodePositionFromColor(otherCell), fragCoord)
  IN  IF BigLess(otherSeedDist, selfSeedDist) THEN otherCell ELSE self

\* Offsets without the diagonal neighbours.
Offsets_AxesOnly == << <<0, 1>>, <<1, 0>>, <<0, -1>>, <<-1, 0>> >>

\* The offsets of runJFAStep, in its order, in steps.
Offsets == << <<0, 1>>, <<1, 1>>, <<1, 0>>, <<1, -1>>, <<0, -1>>, <<-1, -1>>, <<-1, 0>>,
              <<-1, 1>> >>

\* thisCell after the assignments of runJFAStep from the k-th on. Each
\* assignment is bound to a variable, so that TLC evaluates it before the
\* next one and not inside it.
RECURSIVE JFAFrom(_, _, _, _, _, _)
JFAFrom(uInputTexture, uResolution, fragCoord, thisCell, stepSize, k) ==
  IF k > Len(Offsets) THEN thisCell
  ELSE CHOOSE result \in
         {JFAFrom(uInputTexture, uResolution, fragCoord, assigned, stepSize, k + 1) :
            assigned \in {getNewPositionValueIfCloser(
                            uInputTexture, uResolution, fragCoord, thisCell,
                            <<stepSize * Offsets[k][1], stepSize * Offsets[k][2]>>)}} : TRUE

runJFAStep(uInputTexture, uResolution, fragCoord, thisCell, stepSize) ==
  JFAFrom(uInputTexture, uResolution, fragCoord, thisCell, stepSize, 1)

fJumpFloodOutputSeedPosition(uInputTexture, uResolution, uStepSize, fragCoord) ==
  runJFAStep(uInputTexture, uResolution, fragCoord,
             texture2D(uInputTexture, uResolution, fragCoord), uStepSize)

\* The largest n in lo..hi with n * n <= target; lo * lo <= target.
RECURSIVE BigRoot(_, _, _)
BigRoot(lo, hi, target) ==
  IF lo = hi THEN lo
  ELSE LET mid == (lo + hi + 1) \div 2
       IN  IF BigLess(target, BigSquare(mid))
             THEN BigRoot(lo, mid - 1, target)
             ELSE BigRoot(mid, hi, target)

\* sign * dist for a distance of sqrt(squared) eighths, rounded down to a
\* whole number of 1/2000 pixel, which is as much of it as
\* encodeDistanceFieldValue keeps.
SignedDistance(sign, squared) ==
  LET perEighth == DistanceSub \div DECIMAL_DIVIDER
      scaled == BigTimes(squared, perEighth * perEighth)
      \* sqrt(squared) is below 100 when squared has one limb, below Limb
      \* when it has two
      most == IF squared[2] = 0 /\ squared[3] = 0 /\ squared[4] = 0 THEN 100 * perEighth
              ELSE IF squared[3] = 0 /\ squared[4] = 0 THEN Limb * perEighth
              ELSE 4000 * Limb
      root == BigRoot(0, most, scaled)
  IN  IF sign > 0 THEN root
      ELSE IF BigSquare(root) = scaled THEN -root
      ELSE -(root + 1)

\* The colour fJumpFloodOutputDistance writes for the fragment at fragCoord.
fJumpFloodOutputDistance(uInputTexture, uSeedInputTexture, uResolution, uStepSize, fragCoord) ==
  LET thisCell == runJFAStep(uInputTexture, uResolution, fragCoord,
                             texture2D(uInputTexture, uResolution, fragCoord), uStepSize)
      seedImageColor == texture2D(uSeedInputTexture, uResolution,
                                  FlippedY(uResolution, fragCoord))
      seedLocation == decodePositionFromColor(thisCell)
      sign == IF BelowHalf(seedImageColor) THEN -1 ELSE 1
  IN  encodeDistanceFieldValue(SignedDistance(sign, SquaredDistance(seedLocation, fragCoord)))

\* ------------------------------------------------------------------------
\* The codecs alone: a coordinate pair or a distance is encoded by the
\* shader, written to an 8-bit pixel, and decoded.
\* ------------------------------------------------------------------------
\* Coordinates: every sixteenth from 0 to MAX_POSITION in x, with y running
\* the other way.
PositionInputs ==
  {<<x, MAX_POSITION * Sub - x>> : x \in 0..(MAX_POSITION * Sub)}

\* Distances: floor(1000 v + BASE_3 / 2) runs over the numbers with the
\* listed leading digits, those just outside the codec's range included, and
\* v is that or 1/2000 more.
LeadingDigits == {-1, 0, 127, 254, 255}

MiddleDigits == {0, 254}

DistanceInputs ==
  {2 * (r * BASE_2 + m * BASE + b) + h - BASE_3 :
     r \in LeadingDigits, m \in MiddleDigits, b \in 0..(BASE - 1), h \in {0, 1}}

CodecInit ==
  /\ g = constructor(1, 1)
  /\ lastCall = Call(Unconstructed(0, 0), FALSE, "constructor", NoCanvas, "", "")
  /\ returned = VOID
  /\ sched = SchedIdle
  /\ px = PxIdle
  /\ rank = RankIdle
  /\ \/ \E p \in PositionInputs : codec = [pc |-> "position", input |-> p]
     \/ \E v \in DistanceInputs : codec = [pc |-> "distance", input |-> v]

EncodePosition ==
  /\ codec.pc = "position"
  /\ codec' = [pc |-> "position written", input |-> codec.input,
               color |-> encodePositionAsColor(codec.input),
               pixel |-> Stored(encodePositionAsColor(codec.input))]
  /\ UNCHANGED <<g, lastCall, returned, sched, px, rank>>

DecodePosition ==
  /\ codec.pc = "position written"
  /\ codec' = [pc |-> "position decoded", input |-> codec.input, color |-> codec.color,
               pixel |-> codec.pixel,
               output |-> decodePositionFromColor(codec.pixel)]
  /\ UNCHANGED <<g, lastCall, returned, sched, px, rank>>

EncodeDistance ==
  /\ codec.pc = "distance"
  /\ codec' = [pc |-> "distance written", input |-> codec.input,
               color |-> encodeDistanceFieldValue(codec.input),
               pixel |-> Stored(encodeDistanceFieldValue(codec.input))]
  /\ UNCHANGED <<g, lastCall, returned, sched, px, rank>>

DecodeDistance ==
  /\ codec.pc = "distance written"
  /\ \E path \in DecodePaths :
       codec' = [pc |-> "distance decoded", input |-> codec.input, color |-> codec.color,
                 pixel |-> codec.pixel, path |-> path,
                 output |-> getDistanceValue(path, codec.pixel)]
  /\ UNCHANGED <<g, lastCall, returned, sched, px, rank>>

CodecNext == EncodePosition \/ DecodePosition \/ EncodeDistance \/ DecodeDistance

CodecSpec == CodecInit /\ [][CodecNext]_vars

\* ------------------------------------------------------------------------
\* One generate call pixel by pixel: the draws that the call issues, each
\* run as its fragment shader on every pixel of the canvas, on input
\* canvases of greys.
\* ------------------------------------------------------------------------
\* Red bytes of the input pixels: black, just below and just above middle
\* grey, white.
Greys == {0, 120, 128, 255}

\* Every image of greys up to 2 x 2.
SmallImages ==
  UNION {{[w |-> w, h |-> h, at |-> at] : at \in [Texels(w, h) -> Greys]} :
           w \in 1..2, h \in 1..2}

\* A white image with one spot, black or middle grey, or none.
SpotImages ==
  {[w |-> w, h |-> h, at |-> [t \in Texels(w, h) |-> IF t = spot THEN c ELSE 255]] :
     w \in 1..MaxGrid, h \in 1..MaxGrid, spot \in Texels(MaxGrid, MaxGrid), c \in {0, 128}}

\* Two white images on which the qualities differ: three black pixels round
\* a corner, 3 x 4, and two grey pixels, 5 x 4.
EdgeImages ==
  {[w |-> 3, h |-> 4,
    at |-> [t \in Texels(3, 4) |-> IF t \in {<<0, 1>>, <<0, 2>>, <<1, 2>>} THEN 0 ELSE 255]],
   [w |-> 5, h |-> 4,
    at |-> [t \in Texels(5, 4) |-> IF t \in {<<3, 0>>, <<4, 2>>} THEN 120 ELSE 255]]}

\* Reds away from middle grey on either side, the nearest ones just outside
\* the band of NearHalfGrey.
Shades == {40, 100, 154, 200}

\* Two pixels of these, side by side or one above the other.
ShadeImages ==
  {[w |-> w, h |-> 3 - w, at |-> [t \in Texels(w, 3 - w) |-> IF t = <<0, 0>> THEN a ELSE b]] :
     w \in 1..2, a \in Shades, b \in Shades}

PixelImages == SmallImages \cup SpotImages \cup EdgeImages \cup ShadeImages

\* The red byte of a background colour: black or white.
PixelBackgrounds == {0, 255}

\* The generate calls with the background colour that reaches
\* _setSeedsFromCanvas: generateDistanceField passes white.
PixelCalls ==
  {[fn |-> "generateDistanceField", backgroundColor |-> 255]}
    \cup {[fn |-> "generateRawDistanceField", backgroundColor |-> c] : c \in PixelBackgrounds}

\* The calls made on an image: the spot images are called with their own
\* background, white.
PixelCallsOn(image) ==
  IF image \in SmallImages THEN PixelCalls
  ELSE {call \in PixelCalls : call.backgroundColor = 255}

\* The canvas uploaded to the seed input texture: canvas row 0, the top one,
\* is texel row 0.
Uploaded(image) == image

\* The program and the step size of each draw of a sequence.
Passes(d) == [i \in 1..Len(d) |-> [material |-> d[i].material, stepSize |-> d[i].stepSize[1]]]

\* The draws that the generate call issues on a generator made for the
\* canvas, in order.
PassesOf(fn, width, height, quality) ==
  LET fresh == BeginGenerate(constructor(width, height))
      canvas == [width |-> width, height |-> height, img |-> "A"]
  IN  Passes(Draws(IF fn = "generateDistanceField"
                     THEN generateDistanceField(fresh, canvas, quality)
                     ELSE generateRawDistanceField(fresh, canvas, "grey", quality)))

\* A draw of a full-screen quad: the shader's colour, a function of
\* gl_FragCoord, at every pixel of the viewport, as the 8-bit target stores
\* it.
Render(width, height, gl_FragColor) ==
  [w |-> width, h |-> height,
   at |-> [p \in Texels(width, height) |-> Stored(gl_FragColor[FragCoord(p)])]]

PixelInit ==
  /\ g = constructor(1, 1)
  /\ lastCall = Call(Unconstructed(0, 0), FALSE, "constructor", NoCanvas, "", "")
  /\ returned = VOID
  /\ sched = SchedIdle
  /\ codec = CodecIdle
  /\ rank = RankIdle
  /\ \E image \in PixelImages, quality \in JumpFloodQuality :
       \E call \in PixelCallsOn(image) :
         px = [pc |-> "called", fn |-> call.fn, backgroundColor |-> call.backgroundColor,
               quality |-> quality, image |-> image,
               passes |-> PassesOf(call.fn, image.w, image.h, quality), i |-> 0,
               seedInput |-> Uploaded(image),
               prepared |-> <<>>, previous |-> <<>>, source |-> <<>>, out |-> <<>>]

\* The next draw of the call.
NextPass == px.passes[px.i + 1]

PixelSeedPass ==
  /\ px.pc = "called"
  /\ px.i < Len(px.passes)
  /\ NextPass.material = _prepJumpFloodData
  /\ LET uResolution == <<px.image.w, px.image.h>>
         written == Render(px.image.w, px.image.h,
                           [fragCoord \in FragCoords(px.image.w, px.image.h) |->
                             fPrepForJFA(px.seedInput, uResolution, fragCoord)])
     IN  px' = [px EXCEPT !.pc = "flooding", !.i = @ + 1, !.prepared = written,
                          !.source = written]
  /\ UNCHANGED <<g, lastCall, returned, sched, codec, rank>>

PixelJumpFloodPass ==
  /\ px.pc = "flooding"
  /\ px.i < Len(px.passes)
  /\ NextPass.material = _jumpFloodOutputSeedPosition
  /\ LET uResolution == <<px.image.w, px.image.h>>
         written == Render(px.image.w, px.image.h,
                           [fragCoord \in FragCoords(px.image.w, px.image.h) |->
                             fJumpFloodOutputSeedPosition(px.source, uResolution,
                                                          NextPass.stepSize, fragCoord)])
     IN  px' = [px EXCEPT !.i = @ + 1, !.previous = px.source, !.source = written]
  /\ UNCHANGED <<g, lastCall, returned, sched, codec, rank>>

\* The distance pass draws to the canvas; the last step of its runJFAStep is
\* kept as well, for the properties.
PixelDistancePass ==
  /\ px.pc = "flooding"
  /\ px.i < Len(px.passes)
  /\ NextPass.material = _jumpFloodOutputDistance
  /\ LET uResolution == <<px.image.w, px.image.h>>
         written == Render(px.image.w, px.image.h,
                           [fragCoord \in FragCoords(px.image.w, px.image.h) |->
                             fJumpFloodOutputDistance(px.source, px.seedInput, uResolution,
                                                      NextPass.stepSize, fragCoord)])
         held == Render(px.image.w, px.image.h,
                        [fragCoord \in FragCoords(px.image.w, px.image.h) |->
                          fJumpFloodOutputSeedPosition(px.source, uResolution,
                                                       NextPass.stepSize, fragCoord)])
     IN  px' = [px EXCEPT !.pc = "drawn", !.i = @ + 1, !.previous = px.source,
                          !.source = held, !.out = written]
  /\ UNCHANGED <<g, lastCall, returned, sched, codec, rank>>

PixelNext == PixelSeedPass \/ PixelJumpFloodPass \/ PixelDistancePass

PixelSpec == PixelInit /\ [][PixelNext]_vars

\* ------------------------------------------------------------------------
\* One comparison of a jump-flood pass: the fragment of pixel p holds the
\* "no seed" position, and the cell at an offset of one step holds the seed
\* that the seed pass writes for a pixel q of middle grey, its centre.
\* ------------------------------------------------------------------------
\* Widths of the square canvases compared: small ones, and those about half
\* of MAX_POSITION.
RankSizes == {2, 3, (MAX_POSITION + 2) \div 2, (MAX_POSITION + 2) \div 2 + 1, 4096}

\* The corners, the middles of the sides and the middle of a canvas.
RankPixels(w, h) == {0, w \div 2, w - 1} \X {0, h \div 2, h - 1}

\* The cell fPrepForJFA writes at a pixel of middle grey, and the one it
\* writes where it finds no seed.
SeedCell(q) ==
  Stored(encodePositionAsColor(<<(Sub * FragCoord(q)[1]) \div DECIMAL_DIVIDER,
                                 (Sub * FragCoord(q)[2]) \div DECIMAL_DIVIDER>>))

NoSeedCell == Stored(encodePositionAsColor(NoSeed))

\* The buffer the comparison samples: the seed of q in the cell at the
\* offset from p, no seed elsewhere.
RankTexture(r) ==
  [w |-> r.w, h |-> r.h,
   at |-> [t \in Texels(r.w, r.h) |->
             IF t = <<Clamp(r.p[1] + r.offset[1], 0, r.w - 1),
                      Clamp(r.p[2] + r.offset[2], 0, r.h - 1)>>
               THEN SeedCell(r.q)
               ELSE NoSeedCell]]

RankInit ==
  /\ g = constructor(1, 1)
  /\ lastCall = Call(Unconstructed(0, 0), FALSE, "constructor", NoCanvas, "", "")
  /\ returned = VOID
  /\ sched = SchedIdle
  /\ codec = CodecIdle
  /\ px = PxIdle
  /\ \E n \in RankSizes, k \in 1..Len(Offsets) :
       \E p \in RankPixels(n, n), q \in RankPixels(n, n) :
         rank = [pc |-> "sampled", w |-> n, h |-> n, p |-> p, q |-> q,
                 offset |-> Offsets[k], result |-> <<>>]

RankCompare ==
  /\ rank.pc = "sampled"
  /\ rank' = [rank EXCEPT
                !.pc = "ranked",
                !.result = getNewPositionValueIfCloser(
                             RankTexture(rank), <<rank.w, rank.h>>, FragCoord(rank.p),
                             NoSeedCell, rank.offset)]
  /\ UNCHANGED <<g, lastCall, returned, sched, codec, px>>

RankNext == RankCompare

RankSpec == RankInit /\ [][RankNext]_vars

\* ------------------------------------------------------------------------
\* Properties
\* ------------------------------------------------------------------------
IsGenerate(call) == call.fn \in GenerateCalls

\* The jump-flood passes of the current call: its draws but the seed pass.
JumpFloodPasses(s) == SelectSeq(Draws(s), LAMBDA c : c.material # _prepJumpFloodData)

\* The least power of two that is >= n, and its logarithm.
LeastPowerOfTwo(n) ==
  CHOOSE p \in {2^k : k \in 0..20} : p >= n /\ (p = 1 \/ p \div 2 < n)

Log2(p) == CHOOSE k \in 0..20 : 2^k = p

\* The number of passes of the base schedule of a w x h input.
BasePasses(canvas) == Log2(LeastPowerOfTwo(Max(canvas.width, canvas.height)))

\* C1: every generate call issues exactly one distance-mode pass, which is
\* its last pass and the only one drawn to the screen, so that the drawing
\* buffer holds a distance field drawn by this call.
C1_OneDistancePassLast ==
  (IsGenerate(lastCall) /\ ~lastCall.afterDestroy) =>
    LET d == Draws(g)
    IN  /\ Len(d) >= 1
        /\ \A i \in 1..Len(d) :
             /\ (d[i].material = _jumpFloodOutputDistance) <=> (i = Len(d))
             /\ (d[i].target = NULL) <=> (i = Len(d))
        /\ g.drawingBuffer.kind = "distance"

\* C2: the base schedule of a w x h input is M/2, M/4, ..., 1 for M the least
\* power of two >= max(w, h): positive integers, each half the one before,
\* the last one 1, log2(M) of them.
C2_BaseSchedule ==
  sched.pc = "done" =>
    LET M == LeastPowerOfTwo(Max(sched.width, sched.height))
        steps == sched.steps
    IN  /\ Len(steps) = Log2(M)
        /\ \A i \in 1..Len(steps) :
             /\ steps[i].stepSize = Num(M \div (2^i))
             /\ M % (2^i) = 0
             /\ i > 1 => 2 * steps[i].stepSize[1] = steps[i - 1].stepSize[1]
        /\ Len(steps) > 0 => steps[Len(steps)].stepSize = Num(1)
        /\ (\E k \in 0..20 : 2^k = Max(sched.width, sched.height))
             => M = Max(sched.width, sched.height)

C2_Witness ==
  /\ sched.pc = "done"
  /\ sched.width = 5
  /\ sched.height = 3
  /\ Len(sched.steps) = 3

\* C3: after the base schedule JFA issues no further pass (its last base
\* pass, when there is one, is in distance mode), JFA+1 issues one, step 1
\* in distance mode, and JFA+2 issues two, step 2 in propagation mode and
\* step 1 in distance mode; for JFA+1 and JFA+2 every base pass is in
\* propagation mode.
C3_QualityExtension ==
  (IsGenerate(lastCall) /\ ~g.threw) =>
    LET p == JumpFloodPasses(g)
        B == BasePasses(lastCall.inputCanvas)
        Distance(i, k) == p[i].material = _jumpFloodOutputDistance /\ p[i].stepSize = Num(k)
        Propagation(i, k) == p[i].material = _jumpFloodOutputSeedPosition /\ p[i].stepSize = Num(k)
    IN  CASE lastCall.quality = "JFA" ->
               /\ Len(p) = B
               /\ B > 0 => p[B].material = _jumpFloodOutputDistance
          [] lastCall.quality = "JFA+1" ->
               /\ Len(p) = B + 1
               /\ Distance(B + 1, 1)
               /\ \A i \in 1..B : p[i].material = _jumpFloodOutputSeedPosition
          [] lastCall.quality = "JFA+2" ->
               /\ Len(p) = B + 2
               /\ Propagation(B + 1, 2)
               /\ Distance(B + 2, 1)
               /\ \A i \in 1..B : p[i].material = _jumpFloodOutputSeedPosition

C3_Witness ==
  /\ IsGenerate(lastCall)
  /\ lastCall.quality = "JFA+2"
  /\ Max(lastCall.inputCanvas.width, lastCall.inputCanvas.height) = 3
  /\ Len(JumpFloodPasses(g)) = 4

\* C4: no pass samples the texture behind the render target it draws to:
\* _sourceTexture and _destTexture are two textures, and the two render
\* targets stay the targets of the textures they are named after.
C4_NoReadWriteHazard ==
  /\ g._sourceTexture # g._destTexture
  /\ g._seedInputTexture \notin {g._sourceTexture, g._destTexture}
  /\ g.renderTargets[g._sourceTextureTarget].texture = g._sourceTexture
  /\ g.renderTargets[g._destTextureTarget].texture = g._destTexture
  /\ \A i \in 1..Len(Draws(g)) :
       Draws(g)[i].targetTexture = NULL
         \/ Draws(g)[i].targetTexture \notin Draws(g)[i].samplers

C4_Witness ==
  /\ IsGenerate(lastCall)
  /\ Len(JumpFloodPasses(g)) = 3
  /\ g._sourceTexture = 2
  /\ \E i \in 1..Len(Draws(g)) : Draws(g)[i].targetTexture = 1

\* C5: the draws of a generate call are the seed pass and then the
\* jump-flood passes, and each jump-flood pass reads the buffer that the draw
\* just before it wrote: never one last written by an earlier call or left
\* undefined by a resize.
C5_ReadsPreviousPass ==
  IsGenerate(lastCall) =>
    LET d == Draws(g)
    IN  \A i \in 1..Len(d) :
          IF i = 1
            THEN d[i].material = _prepJumpFloodData
            ELSE /\ d[i].material # _prepJumpFloodData
                 /\ d[i].inputWriter = i - 2
                 /\ d[i].inputKind # "old"

C5_Witness ==
  /\ IsGenerate(lastCall)
  /\ ~lastCall.sameSize
  /\ Len(Draws(g)) = 5
  /\ Draws(g)[5].inputWriter = 3

\* What a generate call leaves in the drawing buffer of a generator that
\* was just constructed, on a canvas of the size of the input.
FreshOutput(call) ==
  LET fresh == BeginGenerate(constructor(call.inputCanvas.width, call.inputCanvas.height))
  IN  IF call.fn = "generateDistanceField"
        THEN generateDistanceField(fresh, call.inputCanvas, call.quality).drawingBuffer
        ELSE generateRawDistanceField(fresh, call.inputCanvas, call.backgroundColor,
                                      call.quality).drawingBuffer

\* C6: what a generate call leaves in the output depends on its own input,
\* background colour and quality alone: it is what the same call leaves on a
\* generator that has run no call before.
C6_NoStaleState ==
  (IsGenerate(lastCall) /\ ~lastCall.afterDestroy) =>
    g.drawingBuffer = FreshOutput(lastCall)

ResourceCalls(s) ==
  SelectSeq(s.calls, LAMBDA c : c.op \in {"createTexture", "createRenderTarget",
                                          "texture.resize", "gl.resize"})

C9_FailsFastAfterDestroy ==
  lastCall.afterDestroy => (g.threw /\ g.calls = <<>>)

\* C10: destroy releases each resource the generator created exactly once:
\* the three textures, the two render targets, the quad buffer and the three
\* programs.
C10_DestroyFreesAll ==
  Destroyed(g) =>
    /\ \A t \in DOMAIN g.textures : g.textures[t].frees = 1
    /\ \A r \in DOMAIN g.renderTargets : g.renderTargets[r].frees = 1
    /\ \A m \in DOMAIN g.materials : g.materials[m].frees = 1
    /\ g.quadBufferFrees = 1

\* C11: getPixels on a generator on which no generate call has run fails
\* fast: it throws instead of returning what the output holds.
C11_GetPixelsBeforeGenerateThrows ==
  (lastCall.fn = "getPixels" /\ ~lastCall.afterGenerate) =>
    (g.threw /\ returned = VOID)

\* The distances the codec is for: |v| < BASE_3 / (2 * 1000).
InCodecRange(value) == -BASE_3 < value /\ value < BASE_3

\* C12: every documented decode path divides by the multiplier of the
\* encoder and subtracts the bias the encoder adds, so that on each path the
\* decoded value is the encoded one within one quantization step.
C12_DecodePathsAgree ==
  (codec.pc = "distance decoded" /\ InCodecRange(codec.input)) =>
    /\ codec.path.scale = ENCODE_SCALE
    /\ codec.path.bias2 = BASE_3
    /\ WithinOneStep(codec.output, codec.input, codec.path.scale)

C14_DistanceRoundTrip ==
  (codec.pc = "distance decoded" /\ codec.path = JS_API_DEMO /\ InCodecRange(codec.input)) =>
    /\ \A i \in 1..3 : codec.pixel[i] \in 0..(BASE - 1)
    /\ codec.pixel[1] * BASE_2 + codec.pixel[2] * BASE + codec.pixel[3]
         = (codec.input + BASE_3) \div 2
    /\ WithinOneStep(codec.output, codec.input, ENCODE_SCALE)

C14_Witness ==
  /\ codec.pc = "distance decoded"
  /\ codec.path = JS_API_DEMO
  /\ codec.input = BASE_3 - 1
  /\ codec.pixel = <<254, 254, 254, 255>>

\* C18: for every pixel (x, y) of the canvas, top-left origin, the byte index
\* the sampling helper computes lies inside the array getPixels returned and
\* is that of column x of row height - 1 - y.
C18_SampleIndexInBounds ==
  lastCall.fn = "getPixels" =>
    \A x \in 0..(g._outputCanvas.width - 1), y \in 0..(g._outputCanvas.height - 1) :
      LET i == redPixelIndex(g._outputCanvas.width, g._outputCanvas.height, x, y)
      IN  /\ 0 <= i /\ i + 3 < returned.length
          /\ i = ((g._outputCanvas.height - 1 - y) * g._outputCanvas.width + x) * 4

\* The input pixel the shaders read for the fragment of pixel p.
InputAt(p) == sampleSeedTexture(px.seedInput, <<px.image.w, px.image.h>>, FragCoord(p))

\* The distance a reader decodes from output pixel p, in 1/2000 pixel.
DecodedAt(p) == getDistanceValue(JS_API_DEMO, px.out.at[p]).num

\* C15: in the output of generateDistanceField the decoded distance at p is
\* negative when the input's red at p is below .5 and otherwise not negative
\* (not below the one step that the encoder's rounding down can take off a
\* zero), and the distance pass takes the sign from the input pixel that the
\* seed preparer read for p.
C15_SignFollowsInput ==
  (px.pc = "drawn" /\ px.fn = "generateDistanceField") =>
    \A p \in Texels(px.image.w, px.image.h) :
      /\ BelowHalf(InputAt(p)) => DecodedAt(p) < 0
      /\ ~BelowHalf(InputAt(p)) => DecodedAt(p) >= -1
      /\ texture2D(px.seedInput, <<px.image.w, px.image.h>>,
                   FlippedY(<<px.image.w, px.image.h>>, FragCoord(p))) = InputAt(p)

\* The seed pass wrote a seed at pixel q.
IsSeed(q) == px.prepared.at[q] # Stored(encodePositionAsColor(NoSeed))

Seeded == \E q \in Texels(px.image.w, px.image.h) : IsSeed(q)

\* C16: in the output of generateRawDistanceField on an input with a seed,
\* the decoded distance is not negative at any pixel, whatever the pixel's
\* colour (not below the one step that the encoder's rounding down can take
\* off a zero).
C16_RawIsUnsigned ==
  (px.pc = "drawn" /\ px.fn = "generateRawDistanceField" /\ Seeded) =>
    \A p \in Texels(px.image.w, px.image.h) : DecodedAt(p) >= -1

\* C17: after the seed pass of generateRawDistanceField a pixel holds a seed
\* exactly when the colour of its input pixel is not backgroundColor.
C17_SeedIffNotBackground ==
  (px.pc \in {"flooding", "drawn"} /\ px.fn = "generateRawDistanceField") =>
    \A p \in Texels(px.image.w, px.image.h) :
      IsSeed(p) <=> InputAt(p) # px.backgroundColor

\* The pixels where the seed pass wrote a seed, and the seeds it wrote.
SeedPixels == {q \in Texels(px.image.w, px.image.h) : IsSeed(q)}

SeedColors == {px.prepared.at[q] : q \in SeedPixels}

\* The input has a single seed location.
SingleSeed == Cardinality(SeedPixels) = 1 /\ Cardinality(SeedColors) = 1

TheSeed == CHOOSE c \in SeedColors : TRUE

\* The base schedule of the call has run: the seed pass and its log2(M) passes.
BaseScheduleDone ==
  px.i >= 1 + BasePasses([width |-> px.image.w, height |-> px.image.h])

\* |decoded distance at p|, in 1/2000 pixel.
UnsignedAt(p) == Abs(DecodedAt(p))

\* The decoded distance at p is the distance from p's centre to the seed held
\* at p, within two steps of 1/2000 pixel either way.
DistanceToHeldSeed(p) ==
  LET exact == BigTimes(SquaredDistance(decodePositionFromColor(px.source.at[p]),
                                        FragCoord(p)),
                        (DistanceSub \div DECIMAL_DIVIDER) * (DistanceSub \div DECIMAL_DIVIDER))
      d == UnsignedAt(p)
  IN  /\ ~BigLess(exact, BigSquare(Max(d - 2, 0)))
      /\ ~BigLess(BigSquare(d + 2), exact)

DistanceTo(cell, p) ==
  SignedDistance(1, SquaredDistance(decodePositionFromColor(cell), FragCoord(p)))

\* The seed that the seed pass wrote nearest to every pixel.
NearestSeeds ==
  LET seeds == SeedColors
      Squared(c, p) == SquaredDistance(decodePositionFromColor(c), FragCoord(p))
  IN  [p \in Texels(px.image.w, px.image.h) |->
         CHOOSE c \in seeds : \A e \in seeds : ~BigLess(Squared(e, p), Squared(c, p))]

\* The error at p of the distance to the seed a cell holds, in 1/2000 pixel.
ErrorAt(cell, p, nearest) ==
  IF SquaredDistance(decodePositionFromColor(cell), FragCoord(p))
       = SquaredDistance(decodePositionFromColor(nearest), FragCoord(p))
    THEN 0
    ELSE DistanceTo(cell, p) - DistanceTo(nearest, p)

\* The greatest error, over the pixels, of the distances to the seeds held
\* in a buffer, given the nearest seed of every pixel.
MaxError(held, nearest) ==
  LET errs == {ErrorAt(held.at[p], p, nearest[p]) : p \in DOMAIN nearest}
  IN  CHOOSE d \in errs : \A e \in errs : d >= e

\* The buffer a seed-position pass of the step size writes from a buffer
\* (@@ makes a table of it, so that TLC computes each texel once).
Flooded(buffer, stepSize) ==
  LET written == Render(px.image.w, px.image.h,
                        [fragCoord \in FragCoords(px.image.w, px.image.h) |->
                          fJumpFloodOutputSeedPosition(buffer, <<px.image.w, px.image.h>>,
                                                       stepSize, fragCoord)])
  IN  [written EXCEPT !.at = @ @@ <<>>]

\* The input is one on which a call of quality JFA draws, and has a seed.
Compared == Seeded /\ (px.image.w > 1 \/ px.image.h > 1)

\* C20: on the output of a call of quality JFA+1, the seeds held before its
\* last pass are those a call of quality JFA holds on the same input, and
\* two more passes on these, of steps 2 and 1, give those of JFA+2; the
\* greatest error of the distance does not grow from JFA to JFA+1 nor from
\* JFA+1 to JFA+2.
C20_QualityOrdering ==
  (px.pc = "drawn" /\ px.quality = "JFA+1" /\ Compared) =>
    LET nearest == NearestSeeds
        ofJFA1 == MaxError(px.source, nearest)
    IN  /\ MaxError(px.previous, nearest) >= ofJFA1
        /\ \A once \in {Flooded(px.previous, 2)} :
             \A twice \in {Flooded(once, 1)} : ofJFA1 >= MaxError(twice, nearest)
        /\ \A p \in Texels(px.image.w, px.image.h) : DistanceToHeldSeed(p)

\* The corner image drawn with JFA+1: the base schedule leaves an error of
\* more than a quarter of a pixel, which the pass of JFA+1 removes.
C20_Witness ==
  /\ px.pc = "drawn"
  /\ px.quality = "JFA+1"
  /\ px.image.w = 3 /\ px.image.h = 4
  /\ Compared
  /\ MaxError(px.previous, NearestSeeds) > 500
  /\ MaxError(px.source, NearestSeeds) = 0

\* The red of the input pixel of p is within .1 of .5.
InBand(p) == 10 * Abs(2 * InputAt(p) - 255) < 2 * 255

\* The position of the centre of pixel p, as the seed pass encodes it.
OwnSeed(p) ==
  Stored(encodePositionAsColor(<<Sub * p[1] + Sub \div 2, Sub * p[2] + Sub \div 2>>))

\* C21: a pixel whose input grey is within .1 of .5 is seeded with its own
\* coordinate, holds that seed after every pass of the call, whatever the
\* quality and the entry point, and decodes in the output to 0 within one
\* step of 1/1000 pixel.
C21_ZeroAtBoundary ==
  (px.pc # "called") =>
    \A p \in Texels(px.image.w, px.image.h) :
      InBand(p) =>
        /\ px.prepared.at[p] = OwnSeed(p)
        /\ px.source.at[p] = OwnSeed(p)
        /\ px.pc = "drawn" => UnsignedAt(p) <= DistanceSub \div ENCODE_SCALE

\* A 3 x 3 white image with a pixel of grey 128 in the middle, drawn with
\* JFA+2: the pixel holds its own centre and decodes to one rounding step
\* below 0.
C21_Witness ==
  /\ px.pc = "drawn"
  /\ px.quality = "JFA+2"
  /\ px.image.w = 3 /\ px.image.h = 3
  /\ InputAt(<<1, 1>>) = 128
  /\ px.source.at[<<1, 1>>] = OwnSeed(<<1, 1>>)
  /\ DecodedAt(<<1, 1>>) = -1

\* At least one pass after the seed pass has run; the step size of the last.
Flooding == px.pc \in {"flooding", "drawn"} /\ px.i >= 2

LastStep == px.passes[px.i].stepSize

\* The squared distance from the centre of pixel p to the seed a cell holds.
SquaredTo(cell, p) == SquaredDistance(decodePositionFromColor(cell), FragCoord(p))

\* The cells of the previous buffer that the last pass read for pixel p: the
\* cells at the eight offsets of the step, each moved to the nearest cell of
\* the grid when it is outside.
NeighborCells(p) ==
  {px.previous.at[<<Clamp(p[1] + LastStep * dx, 0, px.image.w - 1),
                    Clamp(p[2] + LastStep * dy, 0, px.image.h - 1)>>] :
     dx \in {-1, 0, 1}, dy \in {-1, 0, 1}}

C23_SentinelNeverPreferred ==
  rank.pc = "ranked" => rank.result = SeedCell(rank.q)

\* The coordinates a cell holds, in eighths of a pixel.
CellX(cell) == cell[1] * BASE + cell[2]

CellY(cell) == cell[3] * BASE + cell[4]

\* Reds a and b lie on different sides of .5, b possibly on it.
Crosses(a, b) == IF 2 * a > 255 THEN 2 * b <= 255 ELSE 2 * b >= 255

\* held is own + dir * t with t = |.5 - a| / |b - a| of a pixel, in eighths
\* of a pixel and rounded down.
Toward(own, dir, a, b, held) ==
  LET exact == own * Abs(b - a) + dir * 4 * Abs(255 - 2 * a)
  IN  held * Abs(b - a) <= exact /\ exact < (held + 1) * Abs(b - a)

\* The seed that the seed pass wrote at p is the one interpolated from the
\* input: a is the red of p, left, right, down and up those of its
\* neighbours; the left neighbour is taken before the right one and the upper
\* before the lower.
Interpolated(p, cell, a, left, right, down, up) ==
  LET x == FragCoord(p)[1]
      y == FragCoord(p)[2]
      across == Crosses(a, left) \/ Crosses(a, right)
      along == Crosses(a, up) \/ Crosses(a, down)
      estimate == IF Crosses(a, left)
                    THEN Toward(x, -1, a, left, CellX(cell))
                    ELSE Toward(x, 1, a, right, CellX(cell))
  IN  /\ (~across /\ ~along) => cell = NoSeedCell
      /\ (across /\ ~along) => estimate /\ CellY(cell) = y
      /\ along =>
           /\ IF Crosses(a, up)
                THEN Toward(y, 1, a, up, CellY(cell))
                ELSE Toward(y, -1, a, down, CellY(cell))
           /\ IF Crosses(a, left) THEN estimate ELSE CellX(cell) = x

\* C24: the seed pass gives a pixel whose grey is not within .1 of .5 the
\* seed interpolated toward a left or right neighbour on the other side of
\* .5, with the pixel's own y; when an upper or lower neighbour is on the
\* other side, the y interpolated toward it and the lesser of the horizontal
\* estimate and the pixel's own x; and the "no seed" position when no
\* neighbour is on the other side.
C24_SeedInterpolation ==
  (px.pc # "called") =>
    \A p \in Texels(px.image.w, px.image.h) :
      ~InBand(p) =>
        Interpolated(p, px.prepared.at[p], InputAt(p),
                     InputAt(<<p[1] - 1, p[2]>>), InputAt(<<p[1] + 1, p[2]>>),
                     InputAt(<<p[1], p[2] - 1>>), InputAt(<<p[1], p[2] + 1>>))

\* A 3 x 3 white image with a black pixel in the middle, after the seed pass:
\* the black pixel holds the corner half a pixel to its left and above, the
\* white pixel to its left the point half a pixel to the right in its own
\* row, and a corner of the image no seed.
C24_Witness ==
  /\ px.pc = "flooding"
  /\ px.i = 1
  /\ px.image.w = 3 /\ px.image.h = 3
  /\ InputAt(<<1, 1>>) = 0
  /\ px.prepared.at[<<1, 1>>] = <<0, 8, 0, 16>>
  /\ px.prepared.at[<<0, 1>>] = <<0, 8, 0, 12>>
  /\ px.prepared.at[<<0, 0>>] = NoSeedCell

\* C25: after every pass that follows the seed pass, the jump-flood passes
\* and the distance pass alike, the seed a pixel holds is at most as far from
\* the pixel as the seed it held before the pass.
C25_HeldSeedNeverFarther ==
  Flooding =>
    \A p \in Texels(px.image.w, px.image.h) :
      ~BigLess(SquaredTo(px.previous.at[p], p), SquaredTo(px.source.at[p], p))

\* The 3 x 4 corner image after a pass in which a pixel that held a seed took
\* a strictly nearer one.
C25_Witness ==
  /\ Flooding
  /\ px.image.w = 3 /\ px.image.h = 4
  /\ \E p \in Texels(px.image.w, px.image.h) :
       /\ px.previous.at[p] # NoSeedCell
       /\ BigLess(SquaredTo(px.source.at[p], p), SquaredTo(px.previous.at[p], p))

\* The cells that the seed pass wrote, seeds and "no seed" alike.
PreparedCells == {px.prepared.at[q] : q \in Texels(px.image.w, px.image.h)}

====
